---- MODULE Spec2Model ----
(***************************************************************************)
(* Model of utils/local-devnet/service_node_network.py: the bring-up of a  *)
(* local devnet (SNNetwork.__init__, run, cleanup, __del__), the readiness *)
(* poller wait_for, the height barrier sync_nodes and the stake conversion *)
(* of the contract seed list.                                              *)
(*                                                                         *)
(* Time is a counter `now` (the value time.time() returns).  A call of the *)
(* program (an RPC, a predicate evaluation) happens at one instant; time   *)
(* passes in time.sleep and between the program's steps (Tick).            *)
(***************************************************************************)
EXTENDS Integers, Sequences, FiniteSets, TLC

\* ------------------------------------------------------------------ bounds
NumSyncNodes == 2    \* len(all_nodes + extra) of the barrier's calls
MaxHeight    == 2    \* daemon heights range over 0..MaxHeight
MaxTimeout   == 1    \* timeouts (in clock ticks) range over 0..MaxTimeout
MaxClock     == 2    \* Tick stops at MaxClock; sleeps always advance time
MaxWaitTimeout == 3  \* wait_for's timeouts range over 1..MaxWaitTimeout
MaxCoins     == 6    \* native amounts range over 1..MaxCoins coins
MaxContributors == 2 \* contributors of a node (besides the devnet's layout)
MaxContractCoins == 2 \* contract requirements range over 1..MaxContractCoins
MaxSNs       == 12   \* the largest number of service nodes of a network
MaxCount     == 14   \* the contract reports counts in 0..MaxCount
AddrLen      == 2    \* the characters of an account address
MaxChainHeight == 4  \* the polled daemon's height ranges over 0..MaxChainHeight
MaxBlocks    == 2    \* mine() is asked for 1..MaxBlocks blocks
MaxActivePolls == 2  \* the polls of mine that found the mining active and are recorded
MaxTotalSleep == 16  \* total_sleep_time is counted up to MaxTotalSleep
PoolDaemons  == 2    \* the daemons started through the pool
PoolWallets  == 2    \* the wallets started through the pool
MaxWorkers   == 3    \* the pool has 1..MaxWorkers worker threads
NumTracked   == 2    \* the service nodes of the network whose proofs are awaited
MaxPeerNodes == 16   \* the peer graph is built for 2..MaxPeerNodes daemons

None == -1           \* Python's None where a number is expected

VARIABLES
  now,          \* time.time()
  \* --- daemons (external), as seen by sync_nodes
  nodeHeight,   \* node -> the daemon's current height
  \* --- SNNetwork.sync_nodes
  s_pc,         \* "idle" | "query" | "loop" | "sleep" | "done"
  heightArg,    \* the height argument as passed (None when omitted)
  timeout,      \* the timeout argument
  nodes,        \* local `nodes`: the working list
  heights,      \* local `heights`
  height,       \* local `height`: the target
  last,         \* local `last`
  expiry,       \* local `expiry`
  s_result,     \* "none" | "returned" | "timeout"
  seen,         \* history: node -> the last height sync_nodes read from it
  heights0,     \* history: the heights read at line 479
  missed,       \* history: at the deadline some node was below the target
  \* --- wait_for
  w_pc,         \* "idle" | "eval" | "check" | "sleep" | "done"
  expires,      \* local `expires`
  w_result,     \* "none" | "returned" | "timeout" | "raised"
  lastOutcome,  \* history: what the last evaluation of the callback did
  trueAt,       \* history: when an evaluation returned true (None: never)
  attempts,     \* history: evaluations of the callback so far
  \* --- SNNetwork.__init__, lines 288-312: one entry of the seed list
  seed_pc,                       \* "convert" | "done"
  contributors,                  \* the node's native contributor amounts
  oxen_staking_requirement,
  contract_staking_requirement,
  stakedAmounts,                 \* node.contributors[i].stakedAmount
  total_staked,
  adjusted,                      \* history: line 310 was executed
  \* --- run, SNNetwork.__init__, cleanup, SNNetwork.__del__
  r_pc,         \* where run() is: "start", a stage of __init__, "input",
                \* "forever", "exit", "finalize", "terminated"
  anvil_path,   \* --anvil-path: "None" | "missing" | "exists"
  eth_sn_contracts_dir,  \* "None" | "no_makefile" | "exists"
  num_sns,      \* the constructor's sns
  snn,          \* the module's global: "None" | "SNNetwork"
  atexit_registered,
  datadir_removed,  \* shutil.rmtree removed an existing data directory
  attrs,        \* the attributes assigned on self so far
  started,      \* the processes spawned so far
  termCalls,    \* process -> the terminate() calls it received
  hooksRun,     \* the teardown hooks that ran
  hookErrors,   \* the teardown hooks that raised
  verify_private_blockchain_attempts,
  chain_probes, \* what the attempts to read the chain id gave, in order
  issued,       \* history: the stages whose requests were issued
  done,         \* history: the stages that ended without an exception
  unsynced,     \* history: blocks were mined and no barrier succeeded since
  seed_count,   \* numberServiceNodes() as read at line 315
  final_count,  \* numberServiceNodes() as read at line 345
  hardhat_account_no_0x,  \* the contract's account, a string (<<>>: unset)
  rewardsAccount,         \* the address of the reward payload (<<>>: unset)
  exit_kind,    \* "none" | "config_error" | "fatal" | "interrupt"
  \* --- the polling loops of SNNetwork.mine (462-465) and of the wait for the
  \* --- pulse quorum (350-356), and the daemon they poll
  p_pc,         \* "idle" | "mine_poll" | "mine_sleep" | "mine_done" |
                \* "mine_sync" | "mine_refresh" | "mine_returned" |
                \* "mine_raised" | the pulse wait's positions
                \*        | "pulse_poll" | "pulse_sleep" | "pulse_done"
  d_height,     \* the daemon's height
  d_active,     \* the daemon's mining_status "active"
  start_height, \* mine's local
  end_height,   \* mine's local
  m_height,     \* mine's local `height`
  m_sync,       \* mine's argument `sync`
  m_ret,        \* what mine returned, None before
  m_trace,      \* what mine has done since its call, in order
  target_height,     \* line 352
  total_sleep_time,  \* line 350
  \* --- the worker pool of SNNetwork.__init__ (141-194)
  pool_pc,      \* where the constructor is with the pool
  max_workers,  \* the pool's worker threads
  queue,        \* the pool's work queue
  task,         \* task -> "new" | "queued" | "running" | "done"
  futures,      \* local `futures`
  \* --- all_service_nodes_proofed (51-58) under wait_for (273-276)
  proof_pc,     \* "polling" | "done" | "timeout"
  view,         \* service_node_states of the last evaluation
  proof_result, \* what the last evaluation returned
  \* --- the peer graph (134-139)
  peer_pc,      \* "loop" | "done"
  peer_n,       \* len(self.all_nodes)
  peer_i,       \* the outer loop's i
  peer_j,       \* the index of the inner loop's j in the strides
  peers,        \* node -> the nodes it added as peers
  add_calls     \* node -> the add_peer calls made on it

syncVars == <<nodeHeight, s_pc, heightArg, timeout, nodes, heights, height,
              last, expiry, s_result, seen, heights0, missed>>
waitVars == <<w_pc, expires, w_result, lastOutcome, trueAt, attempts>>
seedVars == <<seed_pc, contributors, oxen_staking_requirement,
              contract_staking_requirement, stakedAmounts, total_staked,
              adjusted>>
runVars == <<r_pc, anvil_path, eth_sn_contracts_dir, num_sns, snn,
             atexit_registered, datadir_removed, attrs, started, termCalls,
             hooksRun, hookErrors, verify_private_blockchain_attempts,
             chain_probes,
             issued, done, unsynced, seed_count, final_count,
             hardhat_account_no_0x, rewardsAccount, exit_kind>>
pollVars == <<p_pc, d_height, d_active, start_height, end_height, m_height,
              m_sync, m_ret, m_trace, target_height, total_sleep_time>>
poolVars == <<pool_pc, max_workers, queue, task, futures>>
proofVars == <<proof_pc, view, proof_result>>
peerVars == <<peer_pc, peer_n, peer_i, peer_j, peers, add_calls>>
vars == <<now, syncVars, waitVars, seedVars, runVars, pollVars, poolVars,
          proofVars, peerVars>>

\* ------------------------------------------------------------- helpers
RECURSIVE SeqMax(_)
SeqMax(s) == IF Len(s) = 1 THEN s[1]
             ELSE LET m == SeqMax(Tail(s)) IN IF s[1] > m THEN s[1] ELSE m

RECURSIVE SeqMin(_)
SeqMin(s) == IF Len(s) = 1 THEN s[1]
             ELSE LET m == SeqMin(Tail(s)) IN IF s[1] < m THEN s[1] ELSE m

Front(s) == SubSeq(s, 1, Len(s) - 1)
Back(s)  == s[Len(s)]

\* ------------------------------------------- Python int and float values
\* A Python int is unbounded: a natural number is the sequence of its digits
\* in base LimbBase, lowest first, without high zero digits (0 is the empty
\* sequence).
LimbBase == 2^15

RECURSIVE BitLenSmall(_)
BitLenSmall(n) == IF n = 0 THEN 0 ELSE 1 + BitLenSmall(n \div 2)

LimbBits == BitLenSmall(LimbBase) - 1

RECURSIVE Big(_)
Big(n) == IF n = 0 THEN <<>> ELSE <<n % LimbBase>> \o Big(n \div LimbBase)

RECURSIVE BigTrim(_)
BigTrim(x) == IF x = <<>> THEN x
              ELSE IF x[Len(x)] = 0 THEN BigTrim(Front(x)) ELSE x

RECURSIVE BigAddC(_, _, _)
BigAddC(x, y, c) ==
  IF x = <<>> /\ y = <<>> THEN (IF c = 0 THEN <<>> ELSE <<c>>)
  ELSE LET a == IF x = <<>> THEN 0 ELSE x[1]
           b == IF y = <<>> THEN 0 ELSE y[1]
           t == a + b + c
       IN  <<t % LimbBase>> \o BigAddC(IF x = <<>> THEN x ELSE Tail(x),
                                       IF y = <<>> THEN y ELSE Tail(y),
                                       t \div LimbBase)

BigAdd(x, y) == BigAddC(x, y, 0)

\* x - y for x >= y
RECURSIVE BigSubB(_, _, _)
BigSubB(x, y, b) ==
  IF x = <<>> THEN <<>>
  ELSE LET t == x[1] - (IF y = <<>> THEN 0 ELSE y[1]) - b
       IN  <<(t + LimbBase) % LimbBase>>
             \o BigSubB(Tail(x), IF y = <<>> THEN y ELSE Tail(y),
                        IF t < 0 THEN 1 ELSE 0)

BigSub(x, y) == BigTrim(BigSubB(x, y, 0))

RECURSIVE BigLessAt(_, _, _)
BigLessAt(x, y, i) == IF i = 0 THEN FALSE
                      ELSE IF x[i] # y[i] THEN x[i] < y[i]
                      ELSE BigLessAt(x, y, i - 1)

BigLess(x, y) == IF Len(x) # Len(y) THEN Len(x) < Len(y)
                 ELSE BigLessAt(x, y, Len(x))

\* x * d + c for a digit d and a carry c
RECURSIVE BigMulSmallC(_, _, _)
BigMulSmallC(x, d, c) ==
  IF x = <<>> THEN (IF c = 0 THEN <<>> ELSE <<c>>)
  ELSE LET t == x[1] * d + c
       IN  <<t % LimbBase>> \o BigMulSmallC(Tail(x), d, t \div LimbBase)

BigMulSmall(x, d) == IF d = 0 THEN <<>> ELSE BigMulSmallC(x, d, 0)

BigShlLimbs(x, k) == IF x = <<>> THEN x ELSE [i \in 1..k |-> 0] \o x

RECURSIVE BigMul(_, _)
BigMul(x, y) ==
  IF y = <<>> \/ x = <<>> THEN <<>>
  ELSE BigAdd(BigMulSmall(x, y[1]), BigShlLimbs(BigMul(x, Tail(y)), 1))

RECURSIVE BigSum(_)
BigSum(xs) == IF xs = <<>> THEN <<>> ELSE BigAdd(xs[1], BigSum(Tail(xs)))

\* the number of bits of x
BitLen(x) == IF x = <<>> THEN 0
             ELSE LimbBits * (Len(x) - 1) + BitLenSmall(x[Len(x)])

\* x * 2^k
BigShl(x, k) == BigShlLimbs(BigMulSmall(x, 2^(k % LimbBits)), k \div LimbBits)

\* the quotient of x by a digit d > 0, from the highest digit i down, r
\* being the remainder of the digits above i
RECURSIVE BigDivSmallAt(_, _, _, _)
BigDivSmallAt(x, d, i, r) ==
  IF i = 0 THEN <<>>
  ELSE LET t == r * LimbBase + x[i]
       IN  Append(BigDivSmallAt(x, d, i - 1, t % d), t \div d)

\* x \div 2^k
BigShr(x, k) ==
  IF k \div LimbBits >= Len(x) THEN <<>>
  ELSE LET y == SubSeq(x, k \div LimbBits + 1, Len(x))
       IN  BigTrim(BigDivSmallAt(y, 2^(k % LimbBits), Len(y), 0))

\* the largest digit d in lo..hi-1 with d * q <= r, given lo * q <= r < hi * q
RECURSIVE QuotientDigit(_, _, _, _)
QuotientDigit(r, q, lo, hi) ==
  IF hi - lo <= 1 THEN lo
  ELSE LET mid == (lo + hi) \div 2
       IN  IF BigLess(r, BigMulSmall(q, mid)) THEN QuotientDigit(r, q, lo, mid)
           ELSE QuotientDigit(r, q, mid, hi)

\* long division of p by q > 0, from the highest digit i of p down: r is the
\* remainder and quo the quotient of the digits above i
RECURSIVE BigDivAt(_, _, _, _, _)
BigDivAt(p, q, i, r, quo) ==
  IF i = 0 THEN [quo |-> BigTrim(quo), rem |-> r]
  ELSE LET r1 == BigTrim(<<p[i]>> \o r)
           d  == QuotientDigit(r1, q, 0, LimbBase)
       IN  BigDivAt(p, q, i - 1, BigSub(r1, BigMulSmall(q, d)), <<d>> \o quo)

BigDivMod(p, q) == BigDivAt(p, q, Len(p), <<>>, <<>>)

\* A Python float is an IEEE 754 double: m * 2^e with m of at most MantBits
\* bits.  (The exponent range plays no part for the amounts converted.)
MantBits == 53

\* the double nearest to x * 2^e (+ a fraction of 2^e when sticky), ties to
\* even
RoundBig(x, sticky, e) ==
  IF BitLen(x) <= MantBits THEN [m |-> x, e |-> e]
  ELSE LET d    == BitLen(x) - MantBits
           kept == BigShr(x, d)
           rest == BigSub(x, BigShl(kept, d))
           half == BigShl(Big(1), d - 1)
           up   == \/ BigLess(half, rest)
                   \/ rest = half /\ (sticky \/ kept[1] % 2 = 1)
           m1   == IF up THEN BigAdd(kept, Big(1)) ELSE kept
       IN  IF BitLen(m1) > MantBits
             THEN [m |-> BigShr(m1, 1), e |-> e + d + 1]
             ELSE [m |-> m1, e |-> e + d]

\* float(x) of an int x, as in float * int
FloatFromInt(x) == RoundBig(x, FALSE, 0)

\* p / q of two ints (true division, correctly rounded), q > 0
FloatDiv(p, q) ==
  IF p = <<>> THEN [m |-> <<>>, e |-> 0]
  ELSE LET s  == MantBits + 2 + BitLen(q) - BitLen(p)
           dm == IF s >= 0 THEN BigDivMod(BigShl(p, s), q)
                 ELSE BigDivMod(p, BigShl(q, 0 - s))
       IN  RoundBig(dm.quo, dm.rem # <<>>, 0 - s)

\* f * g of two floats
FloatMul(f, g) == RoundBig(BigMul(f.m, g.m), FALSE, f.e + g.e)

\* int(f): truncation
FloatToInt(f) == IF f.e >= 0 THEN BigShl(f.m, f.e) ELSE BigShr(f.m, 0 - f.e)

\* ------------------------------- SNNetwork.__init__: the seed list (288-312)
StakedAmount_Floor(amount, oxen_req, contract_req) ==
  BigDivMod(BigMul(amount, contract_req), oxen_req).quo

\* line 302: int((entry["amount"] / oxen_staking_requirement
\*                * contract_staking_requirement))
StakedAmount(amount, oxen_req, contract_req) ==
  FloatToInt(FloatMul(FloatDiv(amount, oxen_req), FloatFromInt(contract_req)))

\* line 27, coins(x): x coins in atomic units
coins(x) == BigMul(Big(x), Big(10^9))

RECURSIVE SeqSum(_)
SeqSum(xs) == IF xs = <<>> THEN 0 ELSE xs[1] + SeqSum(Tail(xs))

\* contributor lists (in coins) of a node whose requirement is req coins: the
\* stakes are positive and do not exceed the requirement together
ContributorLists(req) ==
  { cs \in UNION { [1..n -> 1..MaxCoins] : n \in 1..MaxContributors } :
      SeqSum(cs) <= req }

\* lines 259-263: the devnet's contributed node, 28 coins of the operator and
\* 8 coins of each of the 9 extra wallets, of a requirement of 100 coins
DevnetContributors == <<28>> \o [i \in 1..9 |-> 8]
DevnetRequirement  == SeqSum(DevnetContributors)

\* the contract's staking requirement (a uint256): coins of a token of 9 or
\* of 18 decimals, and the first integers above 2^MantBits
ContractRequirements(maxCoins) ==
  { BigMul(Big(c), Big(10^9)) : c \in 1..maxCoins }
    \cup { BigMul(coins(c), Big(10^9)) : c \in 1..maxCoins }
    \cup { BigAdd(BigShl(Big(1), MantBits), Big(k)) : k \in 1..3 }

InitSeedEntry ==
  /\ seed_pc = "convert"
  /\ \/ \E req \in 1..MaxCoins :
          /\ oxen_staking_requirement = coins(req)
          /\ \E cs \in ContributorLists(req) :
               contributors = [i \in 1..Len(cs) |-> coins(cs[i])]
          /\ contract_staking_requirement
               \in ContractRequirements(MaxContractCoins)
     \/ /\ oxen_staking_requirement = coins(DevnetRequirement)
        /\ contributors = [i \in 1..Len(DevnetContributors) |->
                             coins(DevnetContributors[i])]
        /\ contract_staking_requirement
             \in { BigMul(Big(120), Big(10^9)),
                   BigMul(coins(120), Big(10^9)) }
  /\ stakedAmounts = <<>>
  /\ total_staked = Big(0)
  /\ adjusted = FALSE

\* lines 297-305: one contributor of the node
SeedConvert ==
  /\ seed_pc = "convert"
  /\ Len(stakedAmounts) < Len(contributors)
  /\ LET stakedAmount ==
           StakedAmount(contributors[Len(stakedAmounts) + 1],
                        oxen_staking_requirement, contract_staking_requirement)
     IN  /\ stakedAmounts' = Append(stakedAmounts, stakedAmount)
         /\ total_staked' = BigAdd(total_staked, stakedAmount)
  /\ UNCHANGED <<seed_pc, contributors, oxen_staking_requirement,
                 contract_staking_requirement, adjusted>>

\* line 309: left_over_to_be_staked > 0
LeftOverPositive(requirement, total) == BigLess(total, requirement)

\* lines 307-312: the left-over goes to the first contributor
SeedLeftOver ==
  /\ seed_pc = "convert"
  /\ Len(stakedAmounts) = Len(contributors)
  /\ IF LeftOverPositive(contract_staking_requirement, total_staked)
       THEN /\ stakedAmounts' =
                 [stakedAmounts EXCEPT ![1] =
                    BigAdd(@, BigSub(contract_staking_requirement,
                                     total_staked))]
            /\ adjusted' = TRUE
       ELSE UNCHANGED <<stakedAmounts, adjusted>>
  /\ seed_pc' = "done"
  /\ UNCHANGED <<contributors, oxen_staking_requirement,
                 contract_staking_requirement, total_staked>>

\* -------------------------------------------------------------- wait_for
Outcomes == {"true", "false", "raise"}

AfterAttempt_FalseReturns(o) == IF o = "raise" THEN "check" ELSE "return"

AfterAttempt_Propagates(o) ==
  IF o = "true" THEN "return" ELSE IF o = "raise" THEN "propagate" ELSE "check"

\* lines 33-37: what one attempt leads to.  A true result returns; a false
\* result falls through to the deadline test; the bare except swallows
\* whatever the callback raises and falls through as well.
AfterAttempt(o) == IF o = "true" THEN "return" ELSE "check"

\* line 38
Expired(t, e) == t >= e

InitWait ==
  /\ w_pc = "idle"
  /\ expires = 0
  /\ w_result = "none"
  /\ lastOutcome = "none"
  /\ trueAt = None
  /\ attempts = 0

\* line 31: the call wait_for(callback, timeout=t)
wait_for(t) ==
  /\ w_pc = "idle"
  /\ expires' = now + t
  /\ w_pc' = "eval"
  /\ UNCHANGED <<now, w_result, lastOutcome, trueAt, attempts>>

\* lines 33-37: one evaluation of the callback, with outcome o
WaitAttempt(o) ==
  /\ w_pc = "eval"
  /\ lastOutcome' = o
  /\ attempts' = attempts + 1
  /\ trueAt' = IF o = "true" THEN now ELSE trueAt
  /\ LET a == AfterAttempt(o) IN
       /\ w_pc' = IF a = "check" THEN "check" ELSE "done"
       /\ w_result' = IF a = "return" THEN "returned"
                      ELSE IF a = "propagate" THEN "raised" ELSE w_result
  /\ UNCHANGED <<now, expires>>

\* lines 38-39: the deadline test after a failed attempt
WaitCheck ==
  /\ w_pc = "check"
  /\ IF Expired(now, expires)
       THEN w_pc' = "done" /\ w_result' = "timeout"
       ELSE w_pc' = "sleep" /\ UNCHANGED w_result
  /\ UNCHANGED <<now, expires, lastOutcome, trueAt, attempts>>

\* line 40: time.sleep(.25)
WaitSleep ==
  /\ w_pc = "sleep"
  /\ w_pc' = "eval"
  /\ now' = now + 1
  /\ UNCHANGED <<expires, w_result, lastOutcome, trueAt, attempts>>

\* time passes while the callback runs
WaitTick ==
  /\ w_pc \in {"eval", "check"}
  /\ now < MaxClock
  /\ now' = now + 1
  /\ UNCHANGED waitVars

\* the steps wait_for takes by itself
WaitStep ==
  \/ \E o \in Outcomes : WaitAttempt(o)
  \/ WaitCheck
  \/ WaitSleep

\* ------------------------------------------------- SNNetwork.sync_nodes
SyncNodeIds == 1..NumSyncNodes

\* line 478: nodes = self.all_nodes + extra (a fresh list, in list order)
AllSyncNodes == [i \in SyncNodeIds |-> i]

TargetHeight_Min(arg, hs) == IF arg = None THEN SeqMin(hs) ELSE arg

\* lines 480-481: the target when the height argument is omitted
TargetHeight(arg, hs) == IF arg = None THEN SeqMax(hs) ELSE arg

\* line 482: the early return
AlreadySynced(hs, h) == SeqMin(hs) >= h

Reached_OffByOne(h, target) == h >= target - 1

Reached_Strict(h, target) == h > target

\* line 491: a node leaves the working list
Reached(h, target) == h >= target

SyncOutcome_Ignored(ns) == "returned"

\* line 500: what the end of the loop gives
SyncOutcome(ns) == IF ns # <<>> THEN "timeout" ELSE "returned"

\* some daemon is below the target h
SomeBelow(nh, h) == \E n \in SyncNodeIds : nh[n] < h

InitSync ==
  /\ nodeHeight \in [SyncNodeIds -> 0..MaxHeight]
  /\ s_pc = "idle"
  /\ heightArg = None
  /\ timeout = 0
  /\ nodes = <<>>
  /\ heights = <<>>
  /\ height = None
  /\ last = None
  /\ expiry = 0
  /\ s_result = "none"
  /\ seen = [n \in SyncNodeIds |-> None]
  /\ heights0 = <<>>
  /\ missed = FALSE

\* the call: sync_nodes(height=h, timeout=t)
sync_nodes(h, t) ==
  /\ s_pc = "idle"
  /\ heightArg' = h
  /\ height' = h
  /\ timeout' = t
  /\ nodes' = AllSyncNodes
  /\ heights' = <<>>
  /\ s_pc' = "query"
  /\ UNCHANGED <<now, nodeHeight, last, expiry, s_result, seen, heights0, missed>>

\* line 479: heights = [x.height() for x in nodes], one RPC after the other
SyncQuery ==
  /\ s_pc = "query"
  /\ Len(heights) < Len(nodes)
  /\ LET n == nodes[Len(heights) + 1] IN
       /\ heights' = Append(heights, nodeHeight[n])
       /\ heights0' = Append(heights0, nodeHeight[n])
       /\ seen' = [seen EXCEPT ![n] = nodeHeight[n]]
  /\ UNCHANGED <<now, nodeHeight, s_pc, heightArg, timeout, nodes, height,
                 last, expiry, s_result, missed>>

\* lines 480-487
SyncDecide ==
  /\ s_pc = "query"
  /\ Len(heights) = Len(nodes)
  /\ height' = TargetHeight(height, heights)
  /\ IF AlreadySynced(heights, height')
       THEN /\ s_pc' = "done"
            /\ s_result' = "returned"
            /\ UNCHANGED <<last, expiry, missed>>
       ELSE /\ s_pc' = "loop"
            /\ last' = None
            /\ expiry' = now + timeout
            /\ missed' = (now >= expiry' /\ SomeBelow(nodeHeight, height'))
            /\ UNCHANGED s_result
  /\ UNCHANGED <<now, nodeHeight, heightArg, timeout, nodes, heights, seen,
                 heights0>>

\* lines 488-502: one test of the loop condition and, when it holds, one
\* iteration up to its `continue` or its sleep
SyncLoop ==
  /\ s_pc = "loop"
  /\ IF nodes # <<>> /\ now < expiry
       THEN LET n  == Back(nodes)
                h1 == IF Back(heights) < height THEN nodeHeight[n]
                      ELSE Back(heights)
            IN  /\ seen' = IF Back(heights) < height
                             THEN [seen EXCEPT ![n] = nodeHeight[n]] ELSE seen
                /\ IF Reached(h1, height)
                     THEN /\ heights' = Front(heights)
                          /\ nodes' = Front(nodes)
                          /\ last' = None
                          /\ s_pc' = "loop"
                     ELSE /\ heights' = [heights EXCEPT ![Len(heights)] = h1]
                          /\ nodes' = nodes
                          /\ last' = h1
                          /\ s_pc' = "sleep"
                /\ UNCHANGED s_result
       ELSE /\ s_result' = SyncOutcome(nodes)
            /\ s_pc' = "done"
            /\ UNCHANGED <<nodes, heights, last, seen>>
  /\ UNCHANGED <<now, nodeHeight, heightArg, timeout, height, expiry, heights0,
                 missed>>

\* line 499: time.sleep(0.1)
SyncSleep ==
  /\ s_pc = "sleep"
  /\ s_pc' = "loop"
  /\ now' = now + 1
  /\ missed' = (missed \/ (now' >= expiry /\ SomeBelow(nodeHeight, height)))
  /\ UNCHANGED <<nodeHeight, heightArg, timeout, nodes, heights, height, last,
                 expiry, s_result, seen, heights0>>

\* a daemon adds a block: heights never decrease
NodeAdvance(n) ==
  /\ s_pc \in {"query", "loop", "sleep"}
  /\ nodeHeight[n] < MaxHeight
  /\ nodeHeight' = [nodeHeight EXCEPT ![n] = @ + 1]
  /\ UNCHANGED <<now, s_pc, heightArg, timeout, nodes, heights, height, last,
                 expiry, s_result, seen, heights0, missed>>

\* time passes between two steps of the barrier
SyncTick ==
  /\ s_pc \in {"query", "loop"}
  /\ now < MaxClock
  /\ now' = now + 1
  /\ missed' = (missed \/ (s_pc = "loop" /\ now' >= expiry
                             /\ SomeBelow(nodeHeight, height)))
  /\ UNCHANGED <<nodeHeight, s_pc, heightArg, timeout, nodes, heights, height,
                 last, expiry, s_result, seen, heights0>>


\* ----------------------------------- run, SNNetwork.__init__ and teardown
\* The processes of a run.  run() is entered once per interpreter (line 611),
\* so the global snn is None at line 565 and the network is built anew.
NumNodes        == 3    \* line 61: nodes=3
NumEthSNs       == 1    \* line 110
NumWallets      == 3    \* line 117: Alice, Bob, Mike
NumExtraWallets == 9    \* line 127
ExpectedSNCount == 13   \* line 345
ChainIdAttempts == 4    \* line 81

Anvil            == <<"anvil", 1>>
SNs(n)           == {<<"sn", i>> : i \in 1..n}
EthSNs           == {<<"ethsn", i>> : i \in 1..NumEthSNs}
Nodes            == {<<"node", i>> : i \in 1..NumNodes}
Wallets          == {<<"wallet", i>> : i \in 1..NumWallets}
ExtraWallets     == {<<"extrawallet", i>> : i \in 1..NumExtraWallets}
\* line 114
AllNodes(n)      == SNs(n) \cup Nodes \cup EthSNs
Procs            == SNs(MaxSNs) \cup Nodes \cup EthSNs \cup Wallets
                      \cup ExtraWallets \cup {Anvil}

\* the stages of __init__ after the chain is verified, in program order
Stages_SeedEarly ==
  << "deploy", "create", "start_sns", "start_nodes", "wait_ready",
     "start_wallets", "wallets_ready",
     "mine1", "sync1", "register_first", "mine_more", "fund_wallets",
     "register_more", "mine2", "sync2", "fund_extra", "mine3", "sync3",
     "seed", "register_contrib", "mine4", "sync4", "contribute", "proofs",
     "wait_proofs", "mine5", "sync5",
     "start_contract", "add_bls", "evm_mine", "verify", "pulse", "rewards",
     "fund_contract", "update_rewards", "claim", "built" >>

\*   deploy 94-102, create 104-139, start_sns 141-159, start_nodes 161-167,
\*   wait_ready 169-171, start_wallets 173-184, wallets_ready 186-213,
\*   mine1 and sync1 225, register_first 226-231, mine_more 232-235,
\*   fund_wallets 237-239, register_more 240-245, mine2 and sync2 249,
\*   fund_extra 250-251, mine3 and sync3 252, register_contrib 259,
\*   mine4 and sync4 260, contribute 262-263, proofs 265-271,
\*   wait_proofs 273-276, mine5 and sync5 278, seed 280-315,
\*   start_contract 317-318, add_bls 320-325, evm_mine 327-330,
\*   verify 332-345, pulse 347-358, rewards 360-365, fund_contract 367-383,
\*   update_rewards 385-395, claim 397-405, built 437-439
Stages ==
  << "deploy", "create", "start_sns", "start_nodes", "wait_ready",
     "start_wallets", "wallets_ready",
     "mine1", "sync1", "register_first", "mine_more", "fund_wallets",
     "register_more", "mine2", "sync2", "fund_extra", "mine3", "sync3",
     "register_contrib", "mine4", "sync4", "contribute", "proofs",
     "wait_proofs", "mine5", "sync5",
     "seed", "start_contract", "add_bls", "evm_mine", "verify", "pulse",
     "rewards", "fund_contract", "update_rewards", "claim", "built" >>

\* self.mine(...)
MineStages == {"mine1", "mine_more", "mine2", "mine3", "mine4", "mine5"}
\* self.sync_nodes(...)
BarrierStages == {"sync1", "sync2", "sync3", "sync4", "sync5"}
\* register_sn, transfer, register_sn_for_contributions, contribute_to_sn
WalletRequestStages == {"register_first", "fund_wallets", "register_more",
                        "fund_extra", "register_contrib", "contribute"}

StageIndex(st) == CHOOSE i \in 1..Len(Stages) : Stages[i] = st

\* line 232: is the second round of registrations skipped?
SecondRoundSkipped(n) == ~(n > 5)

\* the stage that follows st in a network of n service nodes
After(st, n) ==
  IF st = "register_first" /\ SecondRoundSkipped(n) THEN "mine2"
  ELSE Stages[StageIndex(st) + 1]

\* the stage st lies behind the stage reached
Passed(st, reached) ==
  \/ reached \in {"input", "forever"}
  \/ /\ reached \in {Stages[i] : i \in 1..Len(Stages)}
     /\ StageIndex(st) < StageIndex(reached)

\* lines 228, 241 and 259: the service nodes (by index, from 1) a stage
\* submits a registration for: sns[0:5], sns[5:-1] and sns[-1]
RegisteredBy(st, n) ==
  IF st = "register_first" THEN {i \in 1..n : i <= 5}
  ELSE IF st = "register_more" THEN {i \in 1..n : i > 5 /\ i < n}
  ELSE IF st = "register_contrib" THEN {n}
  ELSE {}

\* str.lower() of one character
LowerChar(c) == IF c = "A" THEN "a" ELSE IF c = "B" THEN "b" ELSE c

\* str.lower()
Lower(str) == [i \in 1..Len(str) |-> LowerChar(str[i])]

AddressMatches_Exact(a, b) == a = b

\* line 365: rewardsAccount.lower() == hardhat_account_no_0x.lower()
AddressMatches(a, b) == Lower(a) = Lower(b)

\* the addresses of AddrLen characters
Addresses == [1..AddrLen -> {"a", "A", "b"}]

\* the contract's account (line 283)
HardhatAccounts == {[i \in 1..AddrLen |-> "a"], [i \in 1..AddrLen |-> "A"]}

\* the numbers of service nodes a network is built with: 12 in run(), and
\* the ends of the slices sns[0:5] and sns[5:-1]
SNCounts == {1, 5, 6, MaxSNs}

ConfigInvalid_Never(anvil, dir) == FALSE

\* lines 559-560
ConfigInvalid(anvil, dir) == anvil # "None" /\ dir = "None"

InitRun ==
  /\ r_pc = "start"
  /\ anvil_path \in {"None", "missing", "exists"}
  /\ eth_sn_contracts_dir \in {"None", "no_makefile", "exists"}
  /\ num_sns \in SNCounts
  /\ snn = "None"
  /\ atexit_registered = FALSE
  /\ datadir_removed = FALSE
  /\ attrs = {}
  /\ started = {}
  /\ termCalls = [p \in Procs |-> 0]
  /\ hooksRun = {}
  /\ hookErrors = {}
  /\ verify_private_blockchain_attempts = ChainIdAttempts
  /\ chain_probes = <<>>
  /\ issued = {}
  /\ done = {}
  /\ unsynced = FALSE
  /\ seed_count = None
  /\ final_count = None
  /\ hardhat_account_no_0x = <<>>
  /\ rewardsAccount = <<>>
  /\ exit_kind = "none"

\* an exception leaves __init__ and run(): snn stays None
Raise(kind) ==
  /\ r_pc' = "exit"
  /\ exit_kind' = kind

\* lines 559-568: the options are validated, the exit hook is registered and
\* an existing data directory is removed
RunCheckArgs(dir_exists) ==
  /\ r_pc = "start"
  /\ IF ConfigInvalid(anvil_path, eth_sn_contracts_dir)
       THEN Raise("config_error")
            /\ UNCHANGED <<atexit_registered, datadir_removed>>
       ELSE /\ atexit_registered' = TRUE
            /\ datadir_removed' = dir_exists
            /\ r_pc' = "anvil"
            /\ UNCHANGED exit_kind
  /\ UNCHANGED <<anvil_path, eth_sn_contracts_dir, num_sns, snn, attrs,
                 started, termCalls, hooksRun, hookErrors,
                 verify_private_blockchain_attempts,
                 chain_probes, issued, done, unsynced,
                 seed_count, final_count, hardhat_account_no_0x,
                 rewardsAccount>>

\* lines 70-78
StageAnvil ==
  /\ r_pc = "anvil"
  /\ IF anvil_path = "None"
       THEN r_pc' = "verify_chain" /\ UNCHANGED <<attrs, started, exit_kind>>
       ELSE IF anvil_path = "exists"
         THEN /\ attrs' = attrs \cup {"anvil"}
              /\ started' = started \cup {Anvil}
              /\ r_pc' = "verify_chain"
              /\ UNCHANGED exit_kind
         ELSE Raise("fatal") /\ UNCHANGED <<attrs, started>>
  /\ UNCHANGED <<anvil_path, eth_sn_contracts_dir, num_sns, snn,
                 atexit_registered, datadir_removed, termCalls, hooksRun,
                 hookErrors, verify_private_blockchain_attempts,
                 chain_probes, issued,
                 done, unsynced, seed_count, final_count,
                 hardhat_account_no_0x, rewardsAccount>>

Retried_Any(o) == o # "ok"

\* line 85: the except clause catches RuntimeError only
Retried(o) == o = "unreachable"

\* lines 80-92: one attempt to read the chain id; o is "ok", "unreachable"
\* (a RuntimeError) or "wrong_id" (the assertion fails)
StageVerifyChain(o) ==
  /\ r_pc = "verify_chain"
  /\ verify_private_blockchain_attempts > 0
  /\ chain_probes' = Append(chain_probes, o)
  /\ IF o = "ok"
       THEN /\ r_pc' = "deploy"
            /\ UNCHANGED <<verify_private_blockchain_attempts, exit_kind>>
       ELSE IF Retried(o)
         THEN /\ verify_private_blockchain_attempts' =
                   verify_private_blockchain_attempts - 1
              /\ IF verify_private_blockchain_attempts' = 0
                   THEN Raise("fatal")
                   ELSE UNCHANGED <<r_pc, exit_kind>>
         ELSE Raise("fatal") /\ UNCHANGED verify_private_blockchain_attempts
  /\ UNCHANGED <<anvil_path, eth_sn_contracts_dir, num_sns, snn,
                 atexit_registered, datadir_removed, attrs, started,
                 termCalls, hooksRun, hookErrors, issued, done, unsynced,
                 seed_count, final_count, hardhat_account_no_0x,
                 rewardsAccount>>

\* what a stage assigns on self
StageAttrs(st) ==
  IF st = "create" THEN {"sn_contract", "all_nodes", "wallets", "extrawallets"}
  ELSE {}

\* the processes a stage spawns
StageSpawns(st, n) ==
  IF st = "start_sns" THEN SNs(n) \cup EthSNs
  ELSE IF st = "start_nodes" THEN Nodes
  ELSE IF st = "start_wallets" THEN Wallets \cup ExtraWallets
  ELSE {}

\* a mining stage leaves the daemons at different heights until a height
\* barrier has succeeded
Unsynced(st, before) ==
  IF st \in MineStages THEN TRUE
  ELSE IF st \in BarrierStages THEN FALSE
  ELSE before

\* A stage of __init__ that takes no input of its own: its requests are
\* issued, and it ends (ok) or raises.
Stage(st, ok) ==
  /\ r_pc = st
  /\ st \notin {"seed", "verify", "rewards", "built"}
  /\ st = "deploy" /\ eth_sn_contracts_dir = "None" => ok
  /\ st = "deploy" /\ eth_sn_contracts_dir = "no_makefile" => ~ok
  \* an exception of a start task stays in its future, which is never read
  /\ st \in {"start_sns", "start_wallets"} => ok
  /\ issued' = issued \cup {st}
  /\ IF ok
       THEN /\ r_pc' = After(st, num_sns)
            /\ attrs' = attrs \cup StageAttrs(st)
            /\ started' = started \cup StageSpawns(st, num_sns)
            /\ done' = done \cup {st}
            /\ unsynced' = Unsynced(st, unsynced)
            /\ UNCHANGED exit_kind
       ELSE Raise("fatal") /\ UNCHANGED <<attrs, started, done, unsynced>>
  /\ UNCHANGED <<anvil_path, eth_sn_contracts_dir, num_sns, snn,
                 atexit_registered, datadir_removed, termCalls, hooksRun,
                 hookErrors, verify_private_blockchain_attempts,
                 chain_probes, seed_count,
                 final_count, hardhat_account_no_0x, rewardsAccount>>

\* lines 314-315: does the bring-up go on after the seeding, the contract
\* reporting `count` service nodes for `seeded` seed entries?  The count is
\* printed and not compared.
GoesOnAfterSeeding(count, seeded) == TRUE

\* lines 280-315: the contract's account is read, the seed list is built and
\* submitted; the count the contract then reports is printed
StageSeed(ok, count, account) ==
  /\ r_pc = "seed"
  /\ issued' = issued \cup {"seed"}
  /\ IF ok
       THEN /\ seed_count' = count
            /\ hardhat_account_no_0x' = account
            /\ IF GoesOnAfterSeeding(count, num_sns)
                 THEN /\ r_pc' = After("seed", num_sns)
                      /\ done' = done \cup {"seed"}
                      /\ UNCHANGED exit_kind
                 ELSE Raise("fatal") /\ UNCHANGED done
       ELSE Raise("fatal")
            /\ UNCHANGED <<seed_count, hardhat_account_no_0x, done>>
  /\ UNCHANGED <<anvil_path, eth_sn_contracts_dir, num_sns, snn,
                 atexit_registered, datadir_removed, attrs, started,
                 termCalls, hooksRun, hookErrors,
                 verify_private_blockchain_attempts,
                 chain_probes, unsynced, final_count,
                 rewardsAccount>>

\* line 345: the assertion on the count reported after the registration
CountAccepted(count, seeded_count) == count = ExpectedSNCount

\* lines 332-345: the contract's nodes are logged and the count is verified
StageVerify(count) ==
  /\ r_pc = "verify"
  /\ final_count' = count
  /\ issued' = issued \cup {"verify"}
  /\ IF CountAccepted(count, seed_count)
       THEN /\ r_pc' = After("verify", num_sns)
            /\ done' = done \cup {"verify"}
            /\ UNCHANGED exit_kind
       ELSE Raise("fatal") /\ UNCHANGED done
  /\ UNCHANGED <<anvil_path, eth_sn_contracts_dir, num_sns, snn,
                 atexit_registered, datadir_removed, attrs, started,
                 termCalls, hooksRun, hookErrors,
                 verify_private_blockchain_attempts,
                 chain_probes, unsynced, seed_count,
                 hardhat_account_no_0x, rewardsAccount>>

\* lines 360-365: the reward request; when it returns, the address in its
\* payload is compared with the contract's account
StageRewards(ok, address) ==
  /\ r_pc = "rewards"
  /\ issued' = issued \cup {"rewards"}
  /\ IF ok
       THEN /\ rewardsAccount' = address
            /\ IF AddressMatches(address, hardhat_account_no_0x)
                 THEN /\ r_pc' = After("rewards", num_sns)
                      /\ done' = done \cup {"rewards"}
                      /\ UNCHANGED exit_kind
                 ELSE Raise("fatal") /\ UNCHANGED done
       ELSE Raise("fatal") /\ UNCHANGED <<rewardsAccount, done>>
  /\ UNCHANGED <<anvil_path, eth_sn_contracts_dir, num_sns, snn,
                 atexit_registered, datadir_removed, attrs, started,
                 termCalls, hooksRun, hookErrors,
                 verify_private_blockchain_attempts,
                 chain_probes, unsynced, seed_count,
                 final_count, hardhat_account_no_0x>>

\* lines 437-439 and 569-572: __init__ returns and run() assigns the global
StageBuilt ==
  /\ r_pc = "built"
  /\ snn' = "SNNetwork"
  /\ r_pc' = "input"
  /\ UNCHANGED <<anvil_path, eth_sn_contracts_dir, num_sns,
                 atexit_registered, datadir_removed, attrs, started,
                 termCalls, hooksRun, hookErrors,
                 verify_private_blockchain_attempts,
                 chain_probes, issued, done, unsynced,
                 seed_count, final_count, hardhat_account_no_0x,
                 rewardsAccount, exit_kind>>

\* line 588: input() returns, or the operator interrupts it
RunInput(interrupted) ==
  /\ r_pc = "input"
  /\ IF interrupted THEN Raise("interrupt")
     ELSE r_pc' = "forever" /\ UNCHANGED exit_kind
  /\ UNCHANGED <<anvil_path, eth_sn_contracts_dir, num_sns, snn,
                 atexit_registered, datadir_removed, attrs, started,
                 termCalls, hooksRun, hookErrors,
                 verify_private_blockchain_attempts,
                 chain_probes, issued, done, unsynced,
                 seed_count, final_count, hardhat_account_no_0x,
                 rewardsAccount>>

\* lines 589-595: the loop runs until the operator interrupts it
RunForever ==
  /\ r_pc = "forever"
  /\ Raise("interrupt")
  /\ UNCHANGED <<anvil_path, eth_sn_contracts_dir, num_sns, snn,
                 atexit_registered, datadir_removed, attrs, started,
                 termCalls, hooksRun, hookErrors,
                 verify_private_blockchain_attempts,
                 chain_probes, issued, done, unsynced,
                 seed_count, final_count, hardhat_account_no_0x,
                 rewardsAccount>>

Terminate(calls, ps) == [p \in Procs |-> IF p \in ps THEN calls[p] + 1
                                         ELSE calls[p]]

\* lines 597-599: the processes cleanup() terminates
CleanupTerminates(g, as) ==
  IF g # "None" /\ "anvil" \in as THEN {Anvil} ELSE {}

\* line 598: snn.anvil of a network built without --anvil-path
CleanupRaises(g, as) == g # "None" /\ "anvil" \notin as

\* the interpreter exits: the atexit hook runs when it was registered
RunAtexit ==
  /\ r_pc = "exit"
  /\ r_pc' = "finalize"
  /\ IF atexit_registered
       THEN /\ termCalls' = Terminate(termCalls, CleanupTerminates(snn, attrs))
            /\ hooksRun' = hooksRun \cup {"cleanup"}
            /\ hookErrors' = IF CleanupRaises(snn, attrs)
                               THEN hookErrors \cup {"cleanup"} ELSE hookErrors
       ELSE UNCHANGED <<termCalls, hooksRun, hookErrors>>
  /\ UNCHANGED <<anvil_path, eth_sn_contracts_dir, num_sns, snn,
                 atexit_registered, datadir_removed, attrs, started,
                 verify_private_blockchain_attempts,
                 chain_probes, issued, done, unsynced,
                 seed_count, final_count, hardhat_account_no_0x,
                 rewardsAccount, exit_kind>>

\* lines 528-534: the processes __del__ terminates, up to the first attribute
\* that was never assigned
DelTerminates(as, n) ==
  IF "all_nodes" \notin as THEN {}
  ELSE AllNodes(n)
         \cup (IF "wallets" \notin as THEN {}
               ELSE Wallets \cup (IF "anvil" \in as THEN {Anvil} ELSE {}))

DelRaises(as) == {"all_nodes", "wallets", "anvil"} \ as # {}

\* The network object is collected, if one was made (line 569).  Whether
\* __del__ runs for an object alive at interpreter exit is not guaranteed.
RunFinalize(del_runs) ==
  /\ r_pc = "finalize"
  /\ r_pc' = "terminated"
  /\ del_runs => exit_kind # "config_error"
  /\ IF del_runs
       THEN /\ termCalls' = Terminate(termCalls, DelTerminates(attrs, num_sns))
            /\ hooksRun' = hooksRun \cup {"__del__"}
            /\ hookErrors' = IF DelRaises(attrs)
                               THEN hookErrors \cup {"__del__"} ELSE hookErrors
       ELSE UNCHANGED <<termCalls, hooksRun, hookErrors>>
  /\ UNCHANGED <<anvil_path, eth_sn_contracts_dir, num_sns, snn,
                 atexit_registered, datadir_removed, attrs, started,
                 verify_private_blockchain_attempts,
                 chain_probes, issued, done, unsynced,
                 seed_count, final_count, hardhat_account_no_0x,
                 rewardsAccount, exit_kind>>

\* ------------------- the polling loops of mine and of the pulse-quorum wait
\* Neither loop reads the clock.
SleepTime == 8    \* line 351

InitPoll ==
  /\ p_pc = "idle"
  /\ d_height \in 0..2
  /\ d_active = FALSE
  /\ start_height = None
  /\ end_height = None
  /\ m_height = None
  /\ m_sync = FALSE
  /\ m_ret = None
  /\ m_trace = <<>>
  /\ target_height = None
  /\ total_sleep_time = 0

\* lines 459-461: mine(blocks, sync=sync) reads the height and starts the
\* mining
mine(blocks, sync) ==
  /\ p_pc = "idle"
  /\ start_height' = d_height
  /\ end_height' = d_height + blocks
  /\ d_active' = TRUE
  /\ m_sync' = sync
  /\ p_pc' = "mine_poll"
  /\ UNCHANGED <<d_height, m_height, m_ret, m_trace, target_height,
                 total_sleep_time>>

MineLoopEnds_AtEndHeight(active, h, goal) == h >= goal

\* line 462: the loop of mine ends when the daemon reports no active mining
MineLoopEnds(active, h, goal) == ~active

\* the polls that found the mining active, MaxActivePolls of them at most
Observed(trace, active) ==
  IF ~active THEN Append(trace, "idle")
  ELSE IF Len(trace) < MaxActivePolls THEN Append(trace, "active")
  ELSE trace

\* lines 462-466: one test of the loop condition; the loop goes on to read
\* the height (line 463) and to its sleep, or ends
MinePoll ==
  /\ p_pc = "mine_poll"
  /\ m_trace' = Observed(m_trace, d_active)
  /\ IF MineLoopEnds(d_active, d_height, end_height)
       THEN p_pc' = "mine_done" /\ UNCHANGED m_height
       ELSE p_pc' = "mine_sleep" /\ m_height' = d_height
  /\ UNCHANGED <<d_height, d_active, start_height, end_height, m_sync, m_ret,
                 target_height, total_sleep_time>>

\* line 465
MineSleep ==
  /\ p_pc = "mine_sleep"
  /\ p_pc' = "mine_poll"
  /\ UNCHANGED <<d_height, d_active, start_height, end_height, m_height,
                 m_sync, m_ret, m_trace, target_height, total_sleep_time>>

\* lines 466-473: the height is read after the loop; without sync it is
\* returned
MineRead ==
  /\ p_pc = "mine_done"
  /\ m_height' = d_height
  /\ m_trace' = Append(m_trace, "read")
  /\ IF m_sync
       THEN p_pc' = "mine_sync" /\ UNCHANGED m_ret
       ELSE p_pc' = "mine_returned" /\ m_ret' = m_height'
  /\ UNCHANGED <<d_height, d_active, start_height, end_height, m_sync,
                 target_height, total_sleep_time>>

\* line 469: self.sync_nodes(height) returns, or raises its timeout
MineSync(synced) ==
  /\ p_pc = "mine_sync"
  /\ m_trace' = Append(m_trace, "barrier")
  /\ p_pc' = IF synced THEN "mine_refresh" ELSE "mine_raised"
  /\ UNCHANGED <<d_height, d_active, start_height, end_height, m_height,
                 m_sync, m_ret, target_height, total_sleep_time>>

\* lines 470-473: self.refresh_wallets(), return height
MineRefresh ==
  /\ p_pc = "mine_refresh"
  /\ m_trace' = Append(m_trace, "refresh")
  /\ m_ret' = m_height
  /\ p_pc' = "mine_returned"
  /\ UNCHANGED <<d_height, d_active, start_height, end_height, m_height,
                 m_sync, target_height, total_sleep_time>>

\* lines 350-352
PulseWait ==
  /\ p_pc = "idle"
  /\ total_sleep_time' = 0
  /\ target_height' = d_height + 2
  /\ p_pc' = "pulse_poll"
  /\ UNCHANGED <<d_height, d_active, start_height, end_height, m_height,
                 m_sync, m_ret, m_trace>>

\* line 354
PulseLoopEnds(h, target) == ~(h < target)

\* lines 354-356: one test of the loop condition
PulsePoll ==
  /\ p_pc = "pulse_poll"
  /\ IF PulseLoopEnds(d_height, target_height)
       THEN p_pc' = "pulse_done" /\ UNCHANGED total_sleep_time
       ELSE /\ p_pc' = "pulse_sleep"
            /\ total_sleep_time' =
                 IF total_sleep_time + SleepTime <= MaxTotalSleep
                   THEN total_sleep_time + SleepTime ELSE total_sleep_time
  /\ UNCHANGED <<d_height, d_active, start_height, end_height, m_height,
                 m_sync, m_ret, m_trace, target_height>>

\* line 356
PulseSleep ==
  /\ p_pc = "pulse_sleep"
  /\ p_pc' = "pulse_poll"
  /\ UNCHANGED <<d_height, d_active, start_height, end_height, m_height,
                 m_sync, m_ret, m_trace, target_height, total_sleep_time>>

\* the daemon adds a block (mined, or made by the pulse quorum)
DaemonBlock ==
  /\ p_pc # "idle"
  /\ d_height < MaxChainHeight
  /\ d_height' = d_height + 1
  /\ UNCHANGED <<p_pc, d_active, start_height, end_height, m_height,
                 m_sync, m_ret, m_trace, target_height, total_sleep_time>>

\* the daemon has mined the blocks asked for and stops mining
DaemonStops ==
  /\ d_active
  /\ d_height >= end_height
  /\ d_active' = FALSE
  /\ UNCHANGED <<p_pc, d_height, start_height, end_height, m_height,
                 m_sync, m_ret, m_trace, target_height, total_sleep_time>>

\* the steps the program takes by itself
PollStep ==
  \/ MinePoll \/ MineSleep \/ MineRead \/ MineRefresh
  \/ \E synced \in BOOLEAN : MineSync(synced)
  \/ PulsePoll \/ PulseSleep

\* -------------------------- the worker pool of SNNetwork.__init__ (141-194)
SNStartTasks     == {<<"sn_start", i>> : i \in 1..PoolDaemons}
WalletStartTasks == {<<"wallet_start", i>> : i \in 1..PoolWallets}
WalletReadyTasks == {<<"wallet_ready", i>> : i \in 1..PoolWallets}
PoolTasks        == SNStartTasks \cup WalletStartTasks \cup WalletReadyTasks

\* the tasks of a batch in the order of their submission
InOrder(kind, n) == [i \in 1..n |-> <<kind, i>>]

InitPool ==
  /\ pool_pc = "submit_sn_start"
  /\ max_workers \in 1..MaxWorkers
  /\ queue = <<>>
  /\ task = [t \in PoolTasks |-> "new"]
  /\ futures = {}

\* thread_pool.submit of a batch
Submitted(ts) == [t \in PoolTasks |-> IF t \in ts THEN "queued" ELSE task[t]]

\* lines 146-149: futures.append(thread_pool.submit(sn.start))
SubmitSNStarts ==
  /\ pool_pc = "submit_sn_start"
  /\ queue' = queue \o InOrder("sn_start", PoolDaemons)
  /\ task' = Submitted(SNStartTasks)
  /\ futures' = futures \cup SNStartTasks
  /\ pool_pc' = "wait_sn_start"
  /\ UNCHANGED max_workers

\* concurrent.futures.wait(fs) returns when every future of fs is done
AllDone(fs) == \A t \in fs : task[t] = "done"

\* lines 151-152, 183-184 and 193-194: wait(futures); futures.clear()
WaitFutures ==
  /\ pool_pc \in {"wait_sn_start", "wait_wallet_start", "wait_wallet_ready"}
  /\ AllDone(futures)
  /\ futures' = {}
  /\ pool_pc' = IF pool_pc = "wait_sn_start" THEN "probe"
                ELSE IF pool_pc = "wait_wallet_start"
                  THEN "submit_wallet_ready"
                ELSE "done"
  /\ UNCHANGED <<max_workers, queue, task>>

\* lines 161-171: the other daemons are started and every daemon is probed
ProbeDaemons ==
  /\ pool_pc = "probe"
  /\ pool_pc' = "submit_wallet_start"
  /\ UNCHANGED <<max_workers, queue, task, futures>>

\* lines 175-181: the futures the submissions of w.start return
WalletStartFutures(ts) == {}

\* lines 173-181: thread_pool.submit(w.start)
SubmitWalletStarts ==
  /\ pool_pc = "submit_wallet_start"
  /\ queue' = queue \o InOrder("wallet_start", PoolWallets)
  /\ task' = Submitted(WalletStartTasks)
  /\ futures' = futures \cup WalletStartFutures(WalletStartTasks)
  /\ pool_pc' = "wait_wallet_start"
  /\ UNCHANGED max_workers

\* lines 187-191: futures.append(thread_pool.submit(w.ready))
SubmitWalletReadys ==
  /\ pool_pc = "submit_wallet_ready"
  /\ queue' = queue \o InOrder("wallet_ready", PoolWallets)
  /\ task' = Submitted(WalletReadyTasks)
  /\ futures' = futures \cup WalletReadyTasks
  /\ pool_pc' = "wait_wallet_ready"
  /\ UNCHANGED max_workers

\* an idle worker takes the oldest task of the queue
TaskBegins ==
  /\ queue # <<>>
  /\ Cardinality({t \in PoolTasks : task[t] = "running"}) < max_workers
  /\ task' = [task EXCEPT ![Head(queue)] = "running"]
  /\ queue' = Tail(queue)
  /\ UNCHANGED <<pool_pc, max_workers, futures>>

\* a task returns (or raises: its future is done either way)
TaskEnds(t) ==
  /\ task[t] = "running"
  /\ task' = [task EXCEPT ![t] = "done"]
  /\ UNCHANGED <<pool_pc, max_workers, queue, futures>>

\* ----------- all_service_nodes_proofed (51-58) under wait_for (273-276)
\* What an entry of service_node_states holds for pubkey_bls: no such key
\* ("absent"), None ("None"), the empty string or a BLS public key.
KeyValues == {"absent", "None", "", "bls"}

\* the views a daemon may report: at most one entry per service node
Views ==
  UNION { [sns -> [quorumnet_port : {0, 1}, pubkey_bls : KeyValues]] :
            sns \in SUBSET (1..NumTracked) }

\* line 56: the entries that make the result False
Unproofed(x) ==
  x.quorumnet_port <= 0 \/ x.pubkey_bls = "absent" \/ x.pubkey_bls = "None"

\* lines 53-58: result starts True and an unproofed entry makes it False
all_service_nodes_proofed(v) == \A sn \in DOMAIN v : ~Unproofed(v[sn])

InitProof ==
  /\ proof_pc = "polling"
  /\ view = <<>>
  /\ proof_result = FALSE

\* lines 33-35 with the callback of line 275: one evaluation, on the view v
ProofEvaluate(v) ==
  /\ proof_pc = "polling"
  /\ view' = v
  /\ proof_result' = all_service_nodes_proofed(v)
  /\ proof_pc' = IF proof_result' THEN "done" ELSE "polling"

\* lines 38-39: the deadline passed after an evaluation that was not true
ProofTimeout ==
  /\ proof_pc = "polling"
  /\ ~proof_result
  /\ proof_pc' = "timeout"
  /\ UNCHANGED <<view, proof_result>>

\* ------------------------------------------------ the peer graph (134-139)
Strides_Even == <<2, 4, 6, 8, 10>>

\* line 135
Strides == <<2, 3, 5, 7, 11>>

\* line 136
PeerOf(i, j, n) == (i + j) % n

\* line 137
AddsPeer(i, k) == i # k

\* the daemons are numbered from 0, as all_nodes is indexed
PeerNodes(n) == 0..(n - 1)

InitPeers ==
  /\ peer_pc = "loop"
  /\ peer_n \in 2..MaxPeerNodes
  /\ peer_i = 0
  /\ peer_j = 1
  /\ peers = [i \in PeerNodes(peer_n) |-> {}]
  /\ add_calls = [i \in PeerNodes(peer_n) |-> 0]

\* lines 134-138: one round of the inner loop
PeerStep ==
  /\ peer_pc = "loop"
  /\ LET k == PeerOf(peer_i, Strides[peer_j], peer_n) IN
       IF AddsPeer(peer_i, k)
         THEN /\ peers' = [peers EXCEPT ![peer_i] = @ \cup {k}]
              /\ add_calls' = [add_calls EXCEPT ![peer_i] = @ + 1]
         ELSE UNCHANGED <<peers, add_calls>>
  /\ IF peer_j < Len(Strides)
       THEN peer_j' = peer_j + 1 /\ UNCHANGED <<peer_i, peer_pc>>
       ELSE /\ peer_j' = 1
            /\ peer_i' = peer_i + 1
            /\ peer_pc' = IF peer_i' = peer_n THEN "done" ELSE "loop"
  /\ UNCHANGED peer_n

\* the nodes reached from the set s along peer links
RECURSIVE ReachedFrom(_)
ReachedFrom(s) ==
  LET t == s \cup UNION {peers[i] : i \in s}
  IN  IF t = s THEN s ELSE ReachedFrom(t)

\* ------------------------------------------------------- specifications
\* the barrier when a specification is about another part of the program
SyncParked ==
  /\ InitSync
  /\ nodeHeight = [n \in SyncNodeIds |-> 0]

WaitParked == InitWait

SeedParked ==
  /\ seed_pc = "done"
  /\ contributors = <<>>
  /\ oxen_staking_requirement = <<>>
  /\ contract_staking_requirement = <<>>
  /\ stakedAmounts = <<>>
  /\ total_staked = <<>>
  /\ adjusted = FALSE

RunParked ==
  /\ InitRun
  /\ anvil_path = "None"
  /\ eth_sn_contracts_dir = "None"
  /\ num_sns = 1

PollParked ==
  /\ InitPoll
  /\ d_height = 0

PoolParked ==
  /\ pool_pc = "done"
  /\ max_workers = 1
  /\ queue = <<>>
  /\ task = <<>>
  /\ futures = {}

ProofParked ==
  /\ proof_pc = "timeout"
  /\ view = <<>>
  /\ proof_result = FALSE

PeerParked ==
  /\ peer_pc = "done"
  /\ peer_n = 0
  /\ peer_i = 0
  /\ peer_j = 1
  /\ peers = <<>>
  /\ add_calls = <<>>

SyncInit ==
  /\ now = 0 /\ InitSync /\ WaitParked /\ SeedParked /\ RunParked
  /\ PollParked /\ PoolParked /\ ProofParked /\ PeerParked

SyncFrame ==
  UNCHANGED <<waitVars, seedVars, runVars, pollVars, poolVars, proofVars,
              peerVars>>

SyncNext ==
  \/ \E h \in {None} \cup (0..MaxHeight), t \in 0..MaxTimeout :
       sync_nodes(h, t) /\ SyncFrame
  \/ SyncQuery /\ SyncFrame
  \/ SyncDecide /\ SyncFrame
  \/ SyncLoop /\ SyncFrame
  \/ SyncSleep /\ SyncFrame
  \/ \E n \in SyncNodeIds : NodeAdvance(n) /\ SyncFrame
  \/ SyncTick /\ SyncFrame

SyncSpec == SyncInit /\ [][SyncNext]_vars

WaitInit ==
  /\ now = 0 /\ InitWait /\ SyncParked /\ SeedParked /\ RunParked
  /\ PollParked /\ PoolParked /\ ProofParked /\ PeerParked

WaitFrame ==
  UNCHANGED <<syncVars, seedVars, runVars, pollVars, poolVars, proofVars,
              peerVars>>

WaitNext ==
  \/ \E t \in 1..MaxWaitTimeout : wait_for(t) /\ WaitFrame
  \/ \E o \in Outcomes : WaitAttempt(o) /\ WaitFrame
  \/ WaitCheck /\ WaitFrame
  \/ WaitSleep /\ WaitFrame
  \/ WaitTick /\ WaitFrame

WaitSpec == WaitInit /\ [][WaitNext]_vars

\* the callback returns and the sleep ends: wait_for's own steps are taken
WaitFairSpec ==
  WaitSpec /\ WF_vars(WaitStep /\ WaitFrame)

SeedInit ==
  /\ now = 0 /\ InitSeedEntry /\ SyncParked /\ WaitParked /\ RunParked
  /\ PollParked /\ PoolParked /\ ProofParked /\ PeerParked

SeedFrame ==
  UNCHANGED <<now, syncVars, waitVars, runVars, pollVars, poolVars, proofVars,
              peerVars>>

SeedNext ==
  \/ SeedConvert /\ SeedFrame
  \/ SeedLeftOver /\ SeedFrame

SeedSpec == SeedInit /\ [][SeedNext]_vars

RunInit ==
  /\ now = 0 /\ InitRun /\ SyncParked /\ WaitParked /\ SeedParked
  /\ PollParked /\ PoolParked /\ ProofParked /\ PeerParked

RunFrame ==
  UNCHANGED <<now, syncVars, waitVars, seedVars, pollVars, poolVars, proofVars,
              peerVars>>

RunNext ==
  \/ \E dir_exists \in BOOLEAN : RunCheckArgs(dir_exists) /\ RunFrame
  \/ StageAnvil /\ RunFrame
  \/ \E o \in {"ok", "unreachable", "wrong_id"} : StageVerifyChain(o) /\ RunFrame
  \/ \E i \in 1..Len(Stages), ok \in BOOLEAN : Stage(Stages[i], ok) /\ RunFrame
  \/ \E ok \in BOOLEAN, count \in 0..MaxCount, account \in HardhatAccounts :
       StageSeed(ok, count, account) /\ RunFrame
  \/ \E count \in 0..MaxCount : StageVerify(count) /\ RunFrame
  \/ \E ok \in BOOLEAN, address \in Addresses :
       StageRewards(ok, address) /\ RunFrame
  \/ StageBuilt /\ RunFrame
  \/ \E interrupted \in BOOLEAN : RunInput(interrupted) /\ RunFrame
  \/ RunForever /\ RunFrame
  \/ RunAtexit /\ RunFrame
  \/ \E del_runs \in BOOLEAN : RunFinalize(del_runs) /\ RunFrame

RunSpec == RunInit /\ [][RunNext]_vars

PollInit ==
  /\ now = 0 /\ InitPoll /\ SyncParked /\ WaitParked /\ SeedParked /\ RunParked
  /\ PoolParked /\ ProofParked /\ PeerParked

PollFrame ==
  UNCHANGED <<now, syncVars, waitVars, seedVars, runVars, poolVars, proofVars,
              peerVars>>

PollNext ==
  \/ \E blocks \in 1..MaxBlocks, sync \in BOOLEAN :
       mine(blocks, sync) /\ PollFrame
  \/ MinePoll /\ PollFrame
  \/ MineSleep /\ PollFrame
  \/ MineRead /\ PollFrame
  \/ \E synced \in BOOLEAN : MineSync(synced) /\ PollFrame
  \/ MineRefresh /\ PollFrame
  \/ PulseWait /\ PollFrame
  \/ PulsePoll /\ PollFrame
  \/ PulseSleep /\ PollFrame
  \/ DaemonBlock /\ PollFrame
  \/ DaemonStops /\ PollFrame

PollSpec == PollInit /\ [][PollNext]_vars

\* the RPCs return and the sleeps end: the loops' own steps are taken; the
\* daemon owes the program nothing
PollFairSpec == PollSpec /\ WF_vars(PollStep /\ PollFrame)

PoolInit ==
  /\ now = 0 /\ InitPool /\ SyncParked /\ WaitParked /\ SeedParked /\ RunParked
  /\ PollParked /\ ProofParked /\ PeerParked

PoolFrame ==
  UNCHANGED <<now, syncVars, waitVars, seedVars, runVars, pollVars, proofVars,
              peerVars>>

PoolNext ==
  \/ SubmitSNStarts /\ PoolFrame
  \/ WaitFutures /\ PoolFrame
  \/ ProbeDaemons /\ PoolFrame
  \/ SubmitWalletStarts /\ PoolFrame
  \/ SubmitWalletReadys /\ PoolFrame
  \/ TaskBegins /\ PoolFrame
  \/ \E t \in PoolTasks : TaskEnds(t) /\ PoolFrame

PoolSpec == PoolInit /\ [][PoolNext]_vars

ProofInit ==
  /\ now = 0 /\ InitProof /\ SyncParked /\ WaitParked /\ SeedParked /\ RunParked
  /\ PollParked /\ PoolParked /\ PeerParked

ProofFrame ==
  UNCHANGED <<now, syncVars, waitVars, seedVars, runVars, pollVars, poolVars,
              peerVars>>

ProofNext ==
  \/ \E v \in Views : ProofEvaluate(v) /\ ProofFrame
  \/ ProofTimeout /\ ProofFrame

ProofSpec == ProofInit /\ [][ProofNext]_vars

PeerInit ==
  /\ now = 0 /\ InitPeers /\ SyncParked /\ WaitParked /\ SeedParked
  /\ RunParked /\ PollParked /\ PoolParked /\ ProofParked

PeerFrame ==
  UNCHANGED <<now, syncVars, waitVars, seedVars, runVars, pollVars, poolVars,
              proofVars>>

PeerNext == PeerStep /\ PeerFrame

PeerSpec == PeerInit /\ [][PeerNext]_vars

\* --------------------------------------------------------------- claims
\* C1: whenever sync_nodes returns normally, every node of the synchronized
\* set has been observed by sync_nodes at a height >= the target, whatever
\* the starting heights and however the nodes' heights grew meanwhile.
C1_ReturnedImpliesObserved ==
  s_result = "returned" =>
    \A n \in SyncNodeIds : seen[n] # None /\ seen[n] >= height

\* sync_nodes returned normally after waiting for a node that started below
\* the target
C1_Witness ==
  /\ s_result = "returned"
  /\ \E i \in 1..Len(heights0) : heights0[i] < height

C8_TargetIsInitialMax ==
  (heightArg = None /\ s_pc \in {"loop", "sleep", "done"}) =>
    height = SeqMax(heights0)

\* the barrier waits on a default target that a node has already outgrown
C8_Witness ==
  /\ heightArg = None
  /\ s_pc = "loop"
  /\ \E n \in SyncNodeIds : nodeHeight[n] > height

\* C2: in every seed entry built from a node's native contributor list, the
\* contributors' contract-chain staked amounts add up to the contract's
\* staking requirement exactly, for every contributor list and every pair of
\* requirements.
C2_SumIsRequirement ==
  seed_pc = "done" => BigSum(stakedAmounts) = contract_staking_requirement

\* C3: on every exit path of a run, every process the run spawned has
\* received a terminate call when the run has ended: every daemon, every
\* named wallet, every extra contributor wallet and the anvil node.  It is
\* stated for the runs in which both teardown hooks ran.
C3_AllSpawnedTerminated ==
  (r_pc = "terminated" /\ hooksRun = {"cleanup", "__del__"}) =>
    \A p \in started : termCalls[p] >= 1

\* C4: during the teardown of a run no process receives terminate more than
\* once, whichever of cleanup() and __del__() run.
C4_TerminatedAtMostOnce ==
  \A p \in Procs : termCalls[p] <= 1

\* C9: the bring-up goes on to start the contract and to register the
\* held-back node's key only if the count the contract reported after the
\* seeding equals the number of seed entries submitted.
C9_SeedCountChecked ==
  Passed("seed", r_pc) => seed_count = num_sns

\* C10: the bring-up goes on after the held-back node's registration only if
\* the count the contract then reports is exactly one more than the count it
\* reported after the seeding, whatever the number of service nodes.
C10_CountGrewByOne ==
  Passed("verify", r_pc) => final_count = seed_count + 1

\* C11: once the reward request has returned, the run goes on exactly when
\* the address of the payload equals the contract's account up to letter
\* case; when the two differ otherwise the run aborts and none of the funding
\* transfer, updateRewardsBalance and claimRewards is issued.
C11_RewardAddressChecked ==
  LET SameLetter(c, d) ==
        c = d \/ {c, d} = {"a", "A"} \/ {c, d} = {"b", "B"}
      SameIgnoringCase(x, y) ==
        Len(x) = Len(y) /\ \A i \in 1..Len(x) : SameLetter(x[i], y[i])
  IN  rewardsAccount # <<>> =>
        IF SameIgnoringCase(rewardsAccount, hardhat_account_no_0x)
          THEN "rewards" \in done
          ELSE /\ "rewards" \notin done
               /\ exit_kind = "fatal"
               /\ issued \cap {"fund_contract", "update_rewards", "claim"} = {}

\* the payload's address differs from the account in letter case only, and
\* the run went on to claim the rewards
C11_Witness ==
  /\ rewardsAccount # <<>>
  /\ rewardsAccount # hardhat_account_no_0x
  /\ "claim" \in done

\* C12: the stages happen in a fixed order, and a stage's requests are issued
\* only when the stages before it have ended: registrations after the first
\* mining and its barrier; the seeding after a registration of every service
\* node and the wait for the proofs; the held-back node's key after the
\* seeding; the reward request after the key and the advance of the
\* secondary chain; updateRewardsBalance after the reward request and
\* claimRewards after updateRewardsBalance.
C12_StagesInOrder ==
  LET Registrations == {"register_first", "register_more", "register_contrib"}
  IN  /\ issued \cap Registrations # {} => {"mine1", "sync1"} \subseteq done
      /\ "seed" \in issued =>
           /\ \A i \in 1..num_sns :
                \E st \in done \cap Registrations : i \in RegisteredBy(st, num_sns)
           /\ "wait_proofs" \in done
      /\ "add_bls" \in issued => "seed" \in done
      /\ "rewards" \in issued => {"add_bls", "evm_mine"} \subseteq done
      /\ "update_rewards" \in issued => "rewards" \in done
      /\ "claim" \in issued => "update_rewards" \in done
      /\ done \subseteq issued

\* a network of more than five service nodes was brought up to the claim of
\* the rewards
C12_Witness ==
  "claim" \in done /\ num_sns > 5 /\ r_pc = "input"

\* C13: when the anvil path is given and the contracts directory is not,
\* run() ends in the configuration error, no process was spawned and the
\* data directory was not removed.
C13_ConfigCheckedFirst ==
  (anvil_path # "None" /\ eth_sn_contracts_dir = "None" /\ r_pc # "start") =>
    /\ exit_kind = "config_error"
    /\ r_pc \in {"exit", "finalize", "terminated"}
    /\ started = {}
    /\ ~datadir_removed
    /\ ~atexit_registered

\* the run ended on the configuration error
C13_Witness ==
  exit_kind = "config_error" /\ r_pc = "terminated" /\ anvil_path = "exists"

\* C18: a wallet request of the registration workflow (a registration, a
\* transfer or a contribution) is issued only when a height barrier has
\* succeeded since the last mining stage.
C18_BarrierAfterMining ==
  r_pc \in WalletRequestStages => ~unsynced

\* C14: every wait of the bring-up is bounded: the polling loop of mine and
\* the wait for the held-back node's height to grow by two blocks end, in
\* success or in a timeout, also when the awaited condition never becomes
\* true.
C14_EveryWaitEnds ==
  /\ (p_pc \in {"mine_poll", "mine_sleep"}) ~> (p_pc = "mine_done")
  /\ (p_pc \in {"pulse_poll", "pulse_sleep"}) ~> (p_pc = "pulse_done")

\* C15: every batch of start tasks is joined before the bring-up goes on:
\* the daemons are probed only when every daemon start task is done, and a
\* wallet ready task begins only when every wallet start task is done.
C15_BatchesJoined ==
  /\ pool_pc \notin {"submit_sn_start", "wait_sn_start"} =>
       \A t \in SNStartTasks : task[t] = "done"
  /\ (\E r \in WalletReadyTasks : task[r] \in {"running", "done"}) =>
       \A t \in WalletStartTasks : task[t] = "done"

\* C16: the wait for a service node's proofs ends in success only on a view
\* that lists every tracked service node, each with a positive quorumnet
\* port and a non-empty BLS public key.
C16_ProofedMeansAllValid ==
  proof_pc = "done" =>
    /\ \A sn \in 1..NumTracked : sn \in DOMAIN view
    /\ \A sn \in DOMAIN view :
         /\ view[sn].quorumnet_port > 0
         /\ view[sn].pubkey_bls \notin {"absent", "None", ""}

\* C17: for every number n >= 2 of daemons the peer graph built with the
\* strides 2, 3, 5, 7 and 11 modulo n is connected (every node reaches every
\* other node along peer links), no node is its own peer, and no node adds
\* more than five peers.
C17_PeerGraphConnected ==
  /\ \A i \in DOMAIN peers : i \notin peers[i] /\ add_calls[i] <= 5
  /\ (peer_pc = "done" /\ peer_n >= 2) =>
       \A i \in PeerNodes(peer_n) : ReachedFrom({i}) = PeerNodes(peer_n)

\* the graph of two daemons is built: the stride 2 leads each node to itself
\* and is skipped, the odd strides lead to the other node
C17_Witness ==
  /\ peer_pc = "done"
  /\ peer_n = 2
  /\ peers[0] = {1} /\ peers[1] = {0}
  /\ add_calls[0] = 4

\* C20 as stated: on every iteration of the height barrier the single node
\* that is re-queried is the one with the lowest last-known height among the
\* nodes still in the working set; a node is dropped from the working set
\* exactly when its observed height reaches the target, and looping goes on
\* until the working set is empty or the deadline elapses.
C20_Original ==
  [][LET Iterates  == s_pc = "loop" /\ (nodes' # nodes \/ s_pc' = "sleep")
         Ends      == s_pc = "loop" /\ s_pc' = "done"
         Requeried == Back(heights) < height
         observed  == IF Requeried THEN nodeHeight[Back(nodes)]
                      ELSE Back(heights)
     IN  /\ (Iterates /\ Requeried) => Back(heights) = SeqMin(heights)
         /\ Iterates => (nodes' = Front(nodes) <=> observed >= height)
         /\ Ends => (nodes = <<>> \/ now >= expiry)]_vars

\* C20, amended: on every iteration of the height barrier the only node that
\* can be re-queried is the last node of the working list, whatever the other
\* nodes' last-known heights, and it is re-queried only when its last-known
\* height is below the target; that last node is dropped exactly when its
\* height, as just observed or as known, reaches the target, otherwise its
\* known height is refreshed and the barrier sleeps; looping goes on until
\* the working list is empty or the deadline elapses.
C20_Amended ==
  [][LET Iterates  == s_pc = "loop" /\ (nodes' # nodes \/ s_pc' = "sleep")
         Ends      == s_pc = "loop" /\ s_pc' = "done"
         Requeried == Back(heights) < height
         observed  == IF Requeried THEN nodeHeight[Back(nodes)]
                      ELSE Back(heights)
     IN  /\ Iterates =>
              /\ nodes # <<>> /\ now < expiry
              /\ seen' = IF Requeried
                           THEN [seen EXCEPT ![Back(nodes)] = observed]
                           ELSE seen
              /\ IF observed >= height
                   THEN nodes' = Front(nodes) /\ heights' = Front(heights)
                   ELSE /\ nodes' = nodes /\ s_pc' = "sleep"
                        /\ heights' = [heights EXCEPT ![Len(heights)] = observed]
         /\ Ends => (nodes = <<>> \/ now >= expiry)]_vars

\* the barrier sleeps after re-querying the last node of the full working
\* list although the first node was read at a lower height
C20_Witness ==
  /\ s_pc = "sleep"
  /\ Len(nodes) = NumSyncNodes
  /\ Len(heights0) = NumSyncNodes
  /\ heights0[1] < heights0[NumSyncNodes]
  /\ heights[1] = heights0[1]

\* C19: when a node has a single contributor whose native stake is the whole
\* native staking requirement, the proportional conversion alone yields the
\* whole contract staking requirement, and the left-over adjustment of the
\* first contributor does not fire (the left-over is zero).
C19_SoleContributorExact ==
  (/\ seed_pc = "done"
   /\ Len(contributors) = 1
   /\ contributors[1] = oxen_staking_requirement) =>
    /\ total_staked = contract_staking_requirement
    /\ stakedAmounts[1] = contract_staking_requirement
    /\ ~adjusted

\* C21: in every seed entry each contributor other than the first receives
\* exactly the truncated proportional amount floor(native amount * contract
\* requirement / native requirement), and the whole rounding remainder (the
\* contract requirement minus the sum of the truncated amounts) is added to
\* the first contributor only, and only when that remainder is positive.
C21_TruncatedProportional ==
  seed_pc = "done" /\ contributors # <<>> =>
    LET floors == [i \in 1..Len(contributors) |->
                     StakedAmount_Floor(contributors[i],
                                        oxen_staking_requirement,
                                        contract_staking_requirement)]
        sum    == BigSum(floors)
    IN  /\ \A i \in 2..Len(contributors) : stakedAmounts[i] = floors[i]
        /\ stakedAmounts[1] =
             IF BigLess(sum, contract_staking_requirement)
               THEN BigAdd(floors[1],
                           BigSub(contract_staking_requirement, sum))
               ELSE floors[1]

\* C22: mine(blocks) does not return while the daemon's mining-active flag
\* is observed true, however many polls the mining spans; the height it
\* returns is read after the flag was observed false, and with sync = True
\* the height barrier on that height and then the wallet refresh run before
\* mine returns.
C22_MineReturnsAfterIdle ==
  LET actives == Cardinality({i \in DOMAIN m_trace : m_trace[i] = "active"})
      rest    == SubSeq(m_trace, actives + 1, Len(m_trace))
  IN  /\ p_pc \in {"mine_done", "mine_sync", "mine_refresh", "mine_returned",
                   "mine_raised"} =>
           /\ \A i \in 1..actives : m_trace[i] = "active"
           /\ rest # <<>> /\ rest[1] = "idle"
      /\ p_pc = "mine_returned" =>
           /\ rest = IF m_sync THEN <<"idle", "read", "barrier", "refresh">>
                     ELSE <<"idle", "read">>
           /\ m_ret = m_height
      /\ p_pc # "mine_returned" => m_ret = None

\* mine returned with sync = True after MaxActivePolls polls that found the
\* mining active, with a height above the one it started from
C22_Witness ==
  /\ p_pc = "mine_returned"
  /\ m_sync
  /\ Len(m_trace) = MaxActivePolls + 4
  /\ m_trace[MaxActivePolls] = "active"
  /\ m_ret > start_height

\* C23: the probe of the secondary chain is attempted at most four times;
\* the bring-up goes on after the first attempt that returns the expected
\* chain id, an unreachable error on an attempt causes a retry, the error is
\* raised again once the fourth attempt fails, a reachable chain with a wrong
\* chain id aborts at once without a retry, and no daemon is spawned unless
\* the probe succeeded.
C23_ChainProbeRetries ==
  LET n       == Len(chain_probes)
      aborted == /\ exit_kind = "fatal"
                 /\ r_pc \in {"exit", "finalize", "terminated"}
                 /\ issued = {}
                 /\ started \subseteq {Anvil}
  IN  /\ n <= 4
      /\ \A i \in 1..(n - 1) : chain_probes[i] = "unreachable"
      /\ r_pc = "verify_chain" => n < 4
      /\ n > 0 =>
           /\ chain_probes[n] = "ok" =>
                r_pc # "verify_chain" /\ (exit_kind = "fatal" => issued # {})
           /\ chain_probes[n] = "unreachable" =>
                IF n < 4 THEN r_pc = "verify_chain" /\ exit_kind = "none"
                ELSE aborted
           /\ chain_probes[n] = "wrong_id" => aborted
      /\ started \ {Anvil} # {} => (n > 0 /\ chain_probes[n] = "ok")

\* the daemons were spawned after three unreachable attempts and a fourth
\* that returned the chain id
C23_Witness ==
  /\ chain_probes = <<"unreachable", "unreachable", "unreachable", "ok">>
  /\ SNs(num_sns) \subseteq started

\* C24: for every configured number n >= 1 of service nodes, each of the n
\* nodes of sns has received exactly one registration submission (a solo
\* registration of the operator wallet, or the registration open for
\* contributions of the last node) when the wait for the proofs begins, and
\* the held-back node of ethsns has received none.
C24_RegisteredExactlyOnce ==
  LET Submissions(i) ==
        {st \in {"register_first", "register_more", "register_contrib"} :
           st \in done /\ i \in RegisteredBy(st, num_sns)}
  IN  "wait_proofs" \in issued =>
        /\ \A i \in 1..num_sns : Cardinality(Submissions(i)) = 1
        /\ \A i \in (num_sns + 1)..(num_sns + NumEthSNs) : Submissions(i) = {}

\* C25: when no path of the secondary chain's binary is configured
\* (anvil_path is None), the teardown of a built network treats the
\* secondary chain's node as absent: neither the destructor nor the exit
\* hook raises, and every daemon and wallet has been terminated once the
\* destructor has run.
C25_TeardownWithoutAnvil ==
  (anvil_path = "None" /\ snn # "None") =>
    /\ hookErrors = {}
    /\ "__del__" \in hooksRun =>
         \A p \in AllNodes(num_sns) \cup Wallets : termCalls[p] >= 1

\* C26: sync_nodes raises its timeout error only if, when it raises, the
\* height last observed of at least one node is below the target; it never
\* reports a timeout when every node of the set has been observed at or
\* above the target.
C26_TimeoutOnlyWhenBehind ==
  s_result = "timeout" =>
    \E n \in SyncNodeIds : seen[n] = None \/ seen[n] < height

\* C5 as stated: wait_for returns normally only after an evaluation returned
\* true, and when no evaluation returned true before the deadline it ends in
\* the timeout error.
C5_Original ==
  /\ w_result = "returned" => trueAt # None
  /\ (w_pc = "done" /\ (trueAt = None \/ trueAt >= expires))
       => w_result = "timeout"

\* C5 (amended): wait_for returns normally only when its last evaluation of
\* the predicate returned true, whether before or after the deadline; it
\* raises the timeout error only after a failed attempt that ends at or after
\* the deadline, no evaluation having returned true; and once time has
\* passed the deadline it ends in one of these two outcomes.
C5_Amended ==
  /\ [](w_result = "returned" => (lastOutcome = "true" /\ trueAt # None))
  /\ [](w_result = "timeout" =>
          (trueAt = None /\ lastOutcome # "true" /\ now >= expires))
  /\ ((w_pc # "idle" /\ now >= expires) ~>
        (w_pc = "done" /\ w_result \in {"returned", "timeout"}))

\* wait_for returned normally on an evaluation made after the deadline
C5_Witness ==
  w_result = "returned" /\ trueAt >= expires /\ attempts > 1

\* C6: an exception raised by the predicate in an attempt is never passed on
\* to the caller: after such an attempt wait_for goes on polling, and the
\* only error it ends in is the timeout error, at or after the deadline.
C6_ExceptionSwallowed ==
  /\ w_result # "raised"
  /\ lastOutcome = "raise" =>
       /\ w_result \in {"none", "timeout"}
       /\ w_pc \in {"check", "sleep", "eval", "done"}
       /\ w_pc = "done" => (w_result = "timeout" /\ now >= expires)

\* after an attempt that raised, and before the deadline, wait_for has slept
\* and is about to evaluate the predicate again
C6_Witness ==
  /\ lastOutcome = "raise"
  /\ w_pc = "eval"
  /\ now < expires
====
